---- MODULE Spec2Model ----
(***************************************************************************)
(* Task manager: the REST service of server.js (Express + Mongoose) over   *)
(* the Task collection.                                                    *)
(*                                                                         *)
(* One caller talks to the service over one connection: it reads the       *)
(* response to a request before it sends the next one.  Every handler      *)
(* touches the collection in a single atomic store operation, so handling  *)
(* the requests one after the other loses no store state.                  *)
(*                                                                         *)
(* Spec is that service and its caller, FaultySpec the service with a      *)
(* store that may fail, ClientSpec the service driven by the App component *)
(* of App.jsx, whose requests overlap.                                     *)
(*                                                                         *)
(* A string is a sequence of one-character strings.  A JSON value of a     *)
(* boolean field is one of "undefined" (absent), "null", "true", "false",  *)
(* "yes" (a string Mongoose casts to true) and "junk" (a value Mongoose    *)
(* cannot cast to Boolean).  A JSON text value is [kind, str] with kind    *)
(* "undefined", "null" or "string".                                        *)
(***************************************************************************)
EXTENDS Integers, Sequences, FiniteSets, TLC

VARIABLES store, nextId, clock, resp

\* The state of the App component (useState) and its requests in flight
VARIABLES tasks, newTask, filter, searchTerm, loading, error, stats, net

\* How many times the user has started a request
VARIABLE clicks

\* What has happened so far: failed, some request of the client has failed;
\* refreshAlone, the last requests the user started are those of a refresh
\* made with nothing in flight, and none has failed since.
VARIABLES failed, refreshAlone

client == <<tasks, newTask, filter, searchTerm, loading, error, stats, net, clicks,
            failed, refreshAlone>>

vars == <<store, nextId, clock, resp, client>>

----------------------------------------------------------------------------
(* Bounds *)

\* ObjectIds are 1..MaxId; creation stops when they are used up.
MaxId == 2

\* Date.now() ranges over 0..MaxClock.
MaxClock == 1

----------------------------------------------------------------------------
(* Request inputs *)

\* An id that is not a well-formed ObjectId.
BadId == 0

Ids == 1..MaxId

ReqIds == Ids \cup {BadId}

Undefined == "undefined"

Null == "null"

BoolInputs == {Undefined, Null, "true", "false", "yes", "junk"}

Str(s) == [kind |-> "string", str |-> s]

NoText == [kind |-> Undefined, str |-> <<>>]

NullText == [kind |-> Null, str |-> <<>>]

RawStrings == {<<>>, <<" ">>, <<" ", "A", "b", " ">>, <<"b", ".">>}

TextInputs == {NoText, NullText} \cup {Str(s) : s \in RawStrings}

\* Bodies of POST: text and important of any kind without completed, and a
\* valid text with completed, which the handler never reads.
PostBodies ==
    [text : TextInputs, important : BoolInputs, completed : {Undefined}]
        \cup [text : {Str(<<"b", ".">>)}, important : {Undefined, "true"},
              completed : {"true", Null}]

\* Bodies of PUT: no field, one field of any kind, or all three fields with
\* plain values.
PutBodies ==
    [text : TextInputs, completed : {Undefined}, important : {Undefined}]
        \cup [text : {NoText}, completed : BoolInputs, important : {Undefined}]
        \cup [text : {NoText}, completed : {Undefined}, important : BoolInputs]
        \cup [text : {Str(<<" ", "A", "b", " ">>), Str(<<"b", ".">>)},
              completed : {"true", "false"}, important : {"true", "false"}]

Filters == {Undefined, "all", "completed", "pending", "important"}

Searches == {<<>>, <<"a">>, <<"A">>, <<".">>, <<"(">>}

----------------------------------------------------------------------------
(* Strings *)

\* String.prototype.toLowerCase on one character
Lower(c) == CASE c = "A" -> "a" [] c = "B" -> "b" [] OTHER -> c

RECURSIVE TrimStart(_)
TrimStart(s) == IF s # <<>> /\ Head(s) = " " THEN TrimStart(Tail(s)) ELSE s

RECURSIVE TrimEnd(_)
TrimEnd(s) ==
    IF s # <<>> /\ s[Len(s)] = " " THEN TrimEnd(SubSeq(s, 1, Len(s) - 1)) ELSE s

\* String.prototype.trim
trim(s) == TrimEnd(TrimStart(s))

----------------------------------------------------------------------------
(* Mongoose schema *)

\* Boolean cast of the schema's completed / important paths: true-like values
\* become true, null stays null, anything else that is not false-like throws.
CastFails(v) == v = "junk"

CastBoolean(v) == IF v \in {"true", "yes"} THEN "true" ELSE v

\* required: true on a String path
CheckRequired(s) == Len(s) > 0

\* NewTask with important left out of the constructor's argument
NewTaskDefaultImportant(id, text, important, now, d) ==
    [_id |-> id,
     text |-> trim(text),
     completed |-> "false",
     important |-> "false",
     createdAt |-> now,
     updatedAt |-> now + d]

\* NewTask with the two stamps swapped: createdAt written by the hook
NewTaskStampsSwapped(id, text, important, now, d) ==
    [_id |-> id,
     text |-> trim(text),
     completed |-> "false",
     important |-> CastBoolean(important),
     createdAt |-> now + d,
     updatedAt |-> now]

\* new Task({text, important}) followed by the pre('save') hook: completed
\* takes its default, createdAt is stamped at construction and updatedAt by
\* the hook, at a Date.now() that is d later.
NewTask(id, text, important, now, d) ==
    [_id |-> id,
     text |-> trim(text),
     completed |-> "false",
     important |-> CastBoolean(important),
     createdAt |-> now,
     updatedAt |-> now + d]

----------------------------------------------------------------------------
(* Responses *)

\* Nothing on the connection: the caller has read the last response.
NoResponse == [op |-> "none", req |-> <<>>, status |-> 0, body |-> <<>>]

\* res.status(status).json(body), kept with the request it answers
Response(op, req, status, body) ==
    [op |-> op, req |-> req, status |-> status, body |-> body]

ErrorBody(msg) == [error |-> msg]

----------------------------------------------------------------------------
(* GET /api/tasks *)

\* A pattern of the model's alphabet is a valid regular expression unless it
\* opens a group, which nothing can close.
RegexValid(p) == \A i \in 1..Len(p) : p[i] # "("

\* { $regex: p, $options: 'i' } matched at offset k of t
MatchAt(p, t, k) ==
    \A i \in 1..Len(p) : p[i] = "." \/ Lower(p[i]) = Lower(t[k + i])

RegexTest(p, t) == \E k \in 0..(Len(t) - Len(p)) : MatchAt(p, t, k)

\* BuildQuery with the important branch writing the completed key
BuildQueryImportantAsCompleted(filterArg, search) ==
    [completed |-> IF filterArg \in {"completed", "important"} THEN "true"
                   ELSE IF filterArg = "pending" THEN "false" ELSE Undefined,
     important |-> Undefined,
     text |-> search]

\* The query object built from req.query
BuildQuery(filterArg, search) ==
    [completed |-> IF filterArg = "completed" THEN "true"
                   ELSE IF filterArg = "pending" THEN "false" ELSE Undefined,
     important |-> IF filterArg = "important" THEN "true" ELSE Undefined,
     text |-> search]

Matches(query, doc) ==
    /\ query.completed # Undefined => doc.completed = query.completed
    /\ query.important # Undefined => doc.important = query.important
    /\ query.text # <<>> => RegexTest(query.text, doc.text)

\* Task.find(query), as the set of ids of the documents found
FindIds(s, query) == {i \in DOMAIN s : Matches(query, s[i])}

\* All orders of the ids in S that sort({createdAt: -1}) may produce: the
\* store promises no order among equal keys.
SortedOrders(s, S) ==
    {o \in [1..Cardinality(S) -> S] :
        /\ \A i, j \in 1..Cardinality(S) : i # j => o[i] # o[j]
        /\ \A i, j \in 1..Cardinality(S) :
               i < j => s[o[i]].createdAt >= s[o[j]].createdAt}

\* The documents of s in the order o
Docs(s, o) == [i \in 1..Len(o) |-> s[o[i]]]

GetTasks(filterArg, search) ==
    LET req == [filter |-> filterArg, search |-> search]
    IN  /\ resp = NoResponse
        /\ IF search # <<>> /\ ~RegexValid(search)
           THEN resp' = Response("GET /tasks", req, 500,
                                 ErrorBody("Regular expression is invalid"))
           ELSE \E o \in SortedOrders(store, FindIds(store, BuildQuery(filterArg, search))) :
                    resp' = Response("GET /tasks", req, 200, Docs(store, o))
        /\ UNCHANGED <<store, nextId, clock, client>>

----------------------------------------------------------------------------
(* POST /api/tasks *)

\* The ObjectIds generated so far; a new one is none of them.
IssuedIds == 1..(nextId - 1)

\* const { text, important = false } = req.body
ImportantOrDefault(body) ==
    IF body.important = Undefined THEN "false" ELSE body.important

\* !text || text.trim() === ''
TextMissing(text) ==
    text.kind # "string" \/ text.str = <<>> \/ trim(text.str) = <<>>

\* What task.save() rejects in validation: an important that does not cast,
\* and a required text that is '' once the schema has trimmed it.
SaveRejected(text, important) ==
    CastFails(important) \/ ~CheckRequired(trim(text))

\* TextRequired without .status(400): the answer goes out as 200
TextRequiredNoStatus(body) ==
    Response("POST /tasks", body, 200, ErrorBody("Task text is required"))

\* return res.status(400).json({ error: 'Task text is required' })
TextRequired(body) ==
    Response("POST /tasks", body, 400, ErrorBody("Task text is required"))

PostTask(body, d) ==
    /\ resp = NoResponse
    /\ UNCHANGED client
    /\ IF TextMissing(body.text)
       THEN /\ d = 0
            /\ resp' = TextRequired(body)
            /\ UNCHANGED <<store, nextId, clock>>
       ELSE IF SaveRejected(body.text.str, ImportantOrDefault(body))
       THEN /\ d = 0
            /\ resp' = Response("POST /tasks", body, 400,
                                ErrorBody("Task validation failed"))
            /\ UNCHANGED <<store, nextId, clock>>
       ELSE /\ nextId <= MaxId
            /\ clock + d <= MaxClock
            /\ LET task == NewTask(nextId, body.text.str, ImportantOrDefault(body),
                                   clock, d)
               IN  /\ store' = [i \in DOMAIN store \cup {nextId} |->
                                   IF i = nextId THEN task ELSE store[i]]
                   /\ resp' = Response("POST /tasks", body, 201, task)
            /\ nextId' = nextId + 1
            /\ clock' = clock + d

----------------------------------------------------------------------------
(* PUT /api/tasks/:id *)

\* UpdateData with completed defaulting to false when it is absent
UpdateDataDefaultCompleted(body, now) ==
    [text |-> IF body.text.kind = "string" THEN Str(trim(body.text.str)) ELSE NoText,
     completed |-> IF body.completed = Undefined THEN "false" ELSE body.completed,
     important |-> body.important,
     updatedAt |-> now]

\* updateData, built from the fields of req.body that are not undefined
UpdateData(body, now) ==
    [text |-> IF body.text.kind = "string" THEN Str(trim(body.text.str)) ELSE NoText,
     completed |-> body.completed,
     important |-> body.important,
     updatedAt |-> now]

\* ApplyUpdate with updatedAt missing from the $set
ApplyUpdateNoStamp(doc, u) ==
    [doc EXCEPT
        !.text = IF u.text.kind = "string" THEN u.text.str ELSE @,
        !.completed = IF u.completed # Undefined THEN CastBoolean(u.completed) ELSE @,
        !.important = IF u.important # Undefined THEN CastBoolean(u.important) ELSE @]

\* ApplyUpdate with { overwrite: true }: the document is replaced, and the
\* flags absent from updateData fall back to their defaults
ApplyUpdateOverwrite(doc, u) ==
    [doc EXCEPT
        !.text = IF u.text.kind = "string" THEN u.text.str ELSE @,
        !.completed = IF u.completed # Undefined THEN CastBoolean(u.completed)
                      ELSE "false",
        !.important = IF u.important # Undefined THEN CastBoolean(u.important)
                      ELSE "false",
        !.updatedAt = u.updatedAt]

\* The document after $set of the cast updateData
ApplyUpdate(doc, u) ==
    [doc EXCEPT
        !.text = IF u.text.kind = "string" THEN u.text.str ELSE @,
        !.completed = IF u.completed # Undefined THEN CastBoolean(u.completed) ELSE @,
        !.important = IF u.important # Undefined THEN CastBoolean(u.important) ELSE @,
        !.updatedAt = u.updatedAt]

\* UpdateRejected without runValidators: only the casts reject
UpdateRejectedNoValidators(id, u) ==
    \/ id = BadId
    \/ CastFails(u.completed)
    \/ CastFails(u.important)

\* What findByIdAndUpdate rejects before it reaches the store: an id or a
\* value that does not cast, and (runValidators) a required text set to ''.
UpdateRejected(id, u) ==
    \/ id = BadId
    \/ CastFails(u.completed)
    \/ CastFails(u.important)
    \/ u.text.kind = "string" /\ ~CheckRequired(u.text.str)

PutTask(id, body) ==
    LET req == [id |-> id, body |-> body]
        u == UpdateData(body, clock)
    IN  /\ resp = NoResponse
        /\ IF body.text.kind = Null
           THEN /\ resp' = Response("PUT /tasks/:id", req, 400,
                                    ErrorBody("Cannot read properties of null"))
                /\ UNCHANGED store
           ELSE IF UpdateRejected(id, u)
           THEN /\ resp' = Response("PUT /tasks/:id", req, 400,
                                    ErrorBody("Validation failed"))
                /\ UNCHANGED store
           ELSE IF id \notin DOMAIN store
           THEN /\ resp' = Response("PUT /tasks/:id", req, 404,
                                    ErrorBody("Task not found"))
                /\ UNCHANGED store
           ELSE /\ store' = [store EXCEPT ![id] = ApplyUpdate(@, u)]
                /\ resp' = Response("PUT /tasks/:id", req, 200, store'[id])
        /\ UNCHANGED <<nextId, clock, client>>

----------------------------------------------------------------------------
(* DELETE /api/tasks/:id *)

DeleteTask(id) ==
    LET req == [id |-> id]
    IN  /\ resp = NoResponse
        /\ IF id = BadId
           THEN /\ resp' = Response("DELETE /tasks/:id", req, 500,
                                    ErrorBody("Cast to ObjectId failed"))
                /\ UNCHANGED store
           ELSE IF id \notin DOMAIN store
           THEN /\ resp' = Response("DELETE /tasks/:id", req, 404,
                                    ErrorBody("Task not found"))
                /\ UNCHANGED store
           ELSE /\ store' = [i \in DOMAIN store \ {id} |-> store[i]]
                /\ resp' = Response("DELETE /tasks/:id", req, 200,
                                    [message |-> "Task deleted successfully"])
        /\ UNCHANGED <<nextId, clock, client>>

----------------------------------------------------------------------------
(* GET /api/tasks/stats *)

\* $sum of $cond: [{ $eq: ['$field', value] }, 1, 0] over the collection
SumIf(s, field, value) == Cardinality({i \in DOMAIN s : s[i][field] = value})

\* Task.aggregate([{ $group: { _id: null, ... } }]): one group, or no group
\* at all for an empty collection
Aggregate(s) ==
    IF DOMAIN s = {} THEN <<>>
    ELSE <<[_id |-> Null,
            total |-> Cardinality(DOMAIN s),
            completed |-> SumIf(s, "completed", "true"),
            pending |-> SumIf(s, "completed", "false"),
            important |-> SumIf(s, "important", "true")]>>

\* stats[0] || {zeros}, then delete result._id
StatsResult(groups) ==
    IF groups # <<>>
    THEN [total |-> groups[1].total, completed |-> groups[1].completed,
          pending |-> groups[1].pending, important |-> groups[1].important]
    ELSE [total |-> 0, completed |-> 0, pending |-> 0, important |-> 0]

GetStats ==
    /\ resp = NoResponse
    /\ resp' = Response("GET /tasks/stats", <<>>, 200, StatsResult(Aggregate(store)))
    /\ UNCHANGED <<store, nextId, clock, client>>

----------------------------------------------------------------------------

\* The caller reads the response; the connection is free for its next request.
ReadResponse ==
    /\ resp # NoResponse
    /\ resp' = NoResponse
    /\ UNCHANGED <<store, nextId, clock, client>>

\* Time passes between requests.
Tick ==
    /\ clock < MaxClock
    /\ clock' = clock + 1
    /\ UNCHANGED <<store, nextId, resp, client>>

----------------------------------------------------------------------------
(* The client: App.jsx.  It keeps a mirror of the task list (tasks) and of *)
(* the counts (stats).  Every fetch it starts is a message in net, in the  *)
(* order of dispatch: "sent" until the service handles it, then "answered" *)
(* with the response, or "failed" when the network lost the request or the *)
(* response.  The promise of a message settles in a later step, in any     *)
(* order among the messages.                                               *)

\* Requests the client may have in flight at once.
MaxInFlight == 2

\* Requests the user starts after the component has mounted.
MaxClicks == 3

\* ['all', 'pending', 'completed', 'important'].map(filterType => ...)
ClientFilters == {"all", "pending", "completed", "important"}

\* Values typed into the search box
ClientSearches == {<<>>, <<"a">>}

\* Values typed into the compose box
Drafts == {<<>>, <<" ">>, <<" ", "a">>, <<"b">>}

\* useState({ total: 0, completed: 0, pending: 0, important: 0 })
ZeroStats == [total |-> 0, completed |-> 0, pending |-> 0, important |-> 0]

LoadError == "Failed to load tasks. Please try again."

CreateError == "Failed to create task. Please try again."

UpdateError == "Failed to update task. Please try again."

DeleteError == "Failed to delete task. Please try again."

\* fetch(...): a request on its way to the service
Request(kind, req) ==
    [kind |-> kind, req |-> req, phase |-> "sent", status |-> 0, body |-> <<>>]

\* TasksRequest without the search parameter
TasksRequestNoSearch(f, s) ==
    Request("tasks", [filter |-> IF f # "all" THEN f ELSE Undefined,
                      search |-> <<>>])

\* if (filter !== 'all') params.append('filter', filter);
\* if (searchTerm) params.append('search', searchTerm);
TasksRequest(f, s) ==
    Request("tasks", [filter |-> IF f # "all" THEN f ELSE Undefined,
                      search |-> s])

StatsRequest == Request("stats", [path |-> "stats"])

\* body: JSON.stringify({ text })
CreateRequest(text) ==
    Request("create", [text |-> Str(text), important |-> Undefined,
                       completed |-> Undefined])

\* body: JSON.stringify(updates)
UpdateRequest(id, updates) == Request("update", [id |-> id, body |-> updates])

DeleteRequest(id) == Request("delete", [id |-> id])

\* The response of the service to message m
Answer(m, status, body) ==
    [m EXCEPT !.phase = "answered", !.status = status, !.body = body]

\* The promise of fetch resolved and response.ok
Ok(m) == m.phase = "answered" /\ m.status \in 200..299

Settled(m) == m.phase \in {"answered", "failed"}

RemoveAt(q, i) == SubSeq(q, 1, i - 1) \o SubSeq(q, i + 1, Len(q))

\* !task.completed, !task.important
Not(v) == IF v = "true" THEN "false" ELSE "true"

\* tasks.find(t => t._id === id)
Find(list, id) ==
    LET hits == {k \in DOMAIN list : list[k]._id = id}
    IN  list[CHOOSE k \in hits : \A h \in hits : k <= h]

\* Prepend that puts the new task at the end
PrependAtEnd(task, prev) == prev \o <<task>>

\* [newTask, ...prev]
Prepend(task, prev) == <<task>> \o prev

\* ReplaceById that adds the task when no entry has its id
ReplaceByIdOrAdd(prev, id, task) ==
    IF \E k \in DOMAIN prev : prev[k]._id = id
    THEN [k \in DOMAIN prev |-> IF prev[k]._id = id THEN task ELSE prev[k]]
    ELSE prev \o <<task>>

\* prev.map(task => task._id === id ? updatedTask : task)
ReplaceById(prev, id, task) ==
    [k \in DOMAIN prev |-> IF prev[k]._id = id THEN task ELSE prev[k]]

\* RemoveById that removes the first entry with the id only
RemoveFirstById(prev, id) ==
    IF \E k \in DOMAIN prev : prev[k]._id = id
    THEN RemoveAt(prev, CHOOSE k \in DOMAIN prev :
                            /\ prev[k]._id = id
                            /\ \A h \in DOMAIN prev : prev[h]._id = id => k <= h)
    ELSE prev

\* prev.filter(task => task._id !== id)
RemoveById(prev, id) ==
    LET keep(task) == task._id # id IN SelectSeq(prev, keep)

(* What the user does *)

\* onClick={() => setFilter(filterType)}, then useEffect: fetchTasks()
setFilter(f) ==
    /\ f # filter
    /\ Len(net) < MaxInFlight
    /\ filter' = f
    /\ loading' = TRUE
    /\ net' = Append(net, TasksRequest(f, searchTerm))
    /\ UNCHANGED <<store, nextId, clock, resp, tasks, newTask, searchTerm, error, stats>>
    /\ clicks < MaxClicks
    /\ clicks' = clicks + 1
    /\ refreshAlone' = FALSE
    /\ UNCHANGED failed

\* onChange={(e) => setSearchTerm(e.target.value)}, then useEffect: fetchTasks()
setSearchTerm(s) ==
    /\ s # searchTerm
    /\ Len(net) < MaxInFlight
    /\ searchTerm' = s
    /\ loading' = TRUE
    /\ net' = Append(net, TasksRequest(filter, s))
    /\ UNCHANGED <<store, nextId, clock, resp, tasks, newTask, filter, error, stats>>
    /\ clicks < MaxClicks
    /\ clicks' = clicks + 1
    /\ refreshAlone' = FALSE
    /\ UNCHANGED failed

\* onChange={(e) => setNewTask(e.target.value)} on an input disabled={loading}
setNewTask(t) ==
    /\ ~loading
    /\ t # newTask
    /\ newTask' = t
    /\ UNCHANGED <<store, nextId, clock, resp, tasks, filter, searchTerm, loading,
                   error, stats, net>>
    /\ UNCHANGED <<clicks, failed, refreshAlone>>

\* The create requests the service has not handled yet
CreatesSent == {k \in DOMAIN net : net[k].kind = "create" /\ net[k].phase = "sent"}

\* addTask up to its await: createTask(newTask.trim()) starts the POST
addTask ==
    /\ ~loading
    /\ trim(newTask) # <<>>
    /\ Len(net) < MaxInFlight
    /\ nextId + Cardinality(CreatesSent) <= MaxId
    /\ net' = Append(net, CreateRequest(trim(newTask)))
    /\ UNCHANGED <<store, nextId, clock, resp, tasks, newTask, filter, searchTerm,
                   loading, error, stats>>
    /\ clicks < MaxClicks
    /\ clicks' = clicks + 1
    /\ refreshAlone' = FALSE
    /\ UNCHANGED failed

\* toggleTask that negates the value the service holds, when it holds the task
toggleTaskFromStore(id) ==
    /\ ~loading
    /\ \E k \in DOMAIN tasks : tasks[k]._id = id
    /\ Len(net) < MaxInFlight
    /\ net' = Append(net, UpdateRequest(id,
                  [text |-> NoText,
                   completed |-> Not(IF id \in DOMAIN store THEN store[id].completed
                                     ELSE Find(tasks, id).completed),
                   important |-> Undefined]))
    /\ UNCHANGED <<store, nextId, clock, resp, tasks, newTask, filter, searchTerm,
                   loading, error, stats>>
    /\ clicks < MaxClicks
    /\ clicks' = clicks + 1
    /\ refreshAlone' = FALSE
    /\ UNCHANGED failed

\* The list is rendered when !loading; the click reads the rendered tasks.
toggleTask(id) ==
    /\ ~loading
    /\ \E k \in DOMAIN tasks : tasks[k]._id = id
    /\ Len(net) < MaxInFlight
    /\ net' = Append(net, UpdateRequest(id,
                  [text |-> NoText, completed |-> Not(Find(tasks, id).completed),
                   important |-> Undefined]))
    /\ UNCHANGED <<store, nextId, clock, resp, tasks, newTask, filter, searchTerm,
                   loading, error, stats>>
    /\ clicks < MaxClicks
    /\ clicks' = clicks + 1
    /\ refreshAlone' = FALSE
    /\ UNCHANGED failed

toggleImportant(id) ==
    /\ ~loading
    /\ \E k \in DOMAIN tasks : tasks[k]._id = id
    /\ Len(net) < MaxInFlight
    /\ net' = Append(net, UpdateRequest(id,
                  [text |-> NoText, completed |-> Undefined,
                   important |-> Not(Find(tasks, id).important)]))
    /\ UNCHANGED <<store, nextId, clock, resp, tasks, newTask, filter, searchTerm,
                   loading, error, stats>>
    /\ clicks < MaxClicks
    /\ clicks' = clicks + 1
    /\ refreshAlone' = FALSE
    /\ UNCHANGED failed

\* handleDeleteTask(task._id): deleteTask(id) starts the DELETE
deleteTask(id) ==
    /\ ~loading
    /\ \E k \in DOMAIN tasks : tasks[k]._id = id
    /\ Len(net) < MaxInFlight
    /\ net' = Append(net, DeleteRequest(id))
    /\ UNCHANGED <<store, nextId, clock, resp, tasks, newTask, filter, searchTerm,
                   loading, error, stats>>
    /\ clicks < MaxClicks
    /\ clicks' = clicks + 1
    /\ refreshAlone' = FALSE
    /\ UNCHANGED failed

\* refreshTasks that queries all tasks, whatever the filter and the search term
refreshTasksUnfiltered ==
    /\ Len(net) + 2 <= MaxInFlight
    /\ loading' = TRUE
    /\ net' = net \o <<TasksRequest("all", <<>>), StatsRequest>>
    /\ UNCHANGED <<store, nextId, clock, resp, tasks, newTask, filter, searchTerm,
                   error, stats>>
    /\ clicks < MaxClicks
    /\ clicks' = clicks + 1
    /\ refreshAlone' = (net = <<>>)
    /\ UNCHANGED failed

\* fetchTasks(); fetchStats();
refreshTasks ==
    /\ Len(net) + 2 <= MaxInFlight
    /\ loading' = TRUE
    /\ net' = net \o <<TasksRequest(filter, searchTerm), StatsRequest>>
    /\ UNCHANGED <<store, nextId, clock, resp, tasks, newTask, filter, searchTerm,
                   error, stats>>
    /\ clicks < MaxClicks
    /\ clicks' = clicks + 1
    /\ refreshAlone' = (net = <<>>)
    /\ UNCHANGED failed

\* onClick={() => setError(null)} on the banner shown while error is set
dismissError ==
    /\ error # Null
    /\ error' = Null
    /\ UNCHANGED <<store, nextId, clock, resp, tasks, newTask, filter, searchTerm,
                   loading, stats, net>>
    /\ UNCHANGED <<clicks, failed, refreshAlone>>

(* What the service does with a message: the handlers above *)

ServeTasks(i) ==
    /\ i \in DOMAIN net /\ net[i].kind = "tasks" /\ net[i].phase = "sent"
    /\ LET q == net[i].req
       IN  IF q.search # <<>> /\ ~RegexValid(q.search)
           THEN net' = [net EXCEPT ![i] = Answer(@, 500,
                            <<ErrorBody("Regular expression is invalid")>>)]
           ELSE \E o \in SortedOrders(store, FindIds(store, BuildQuery(q.filter, q.search))) :
                    net' = [net EXCEPT ![i] = Answer(@, 200, Docs(store, o))]
    /\ UNCHANGED <<store, nextId, clock, resp, tasks, newTask, filter, searchTerm,
                   loading, error, stats>>
    /\ UNCHANGED <<clicks, failed, refreshAlone>>

ServeStats(i) ==
    /\ i \in DOMAIN net /\ net[i].kind = "stats" /\ net[i].phase = "sent"
    /\ net' = [net EXCEPT ![i] = Answer(@, 200, <<StatsResult(Aggregate(store))>>)]
    /\ UNCHANGED <<store, nextId, clock, resp, tasks, newTask, filter, searchTerm,
                   loading, error, stats>>
    /\ UNCHANGED <<clicks, failed, refreshAlone>>

ServeCreate(i) ==
    /\ i \in DOMAIN net /\ net[i].kind = "create" /\ net[i].phase = "sent"
    /\ LET body == net[i].req
       IN  IF TextMissing(body.text)
           THEN /\ net' = [net EXCEPT ![i] = Answer(@, 400,
                                <<ErrorBody("Task text is required")>>)]
                /\ UNCHANGED <<store, nextId>>
           ELSE IF SaveRejected(body.text.str, ImportantOrDefault(body))
           THEN /\ net' = [net EXCEPT ![i] = Answer(@, 400,
                                <<ErrorBody("Task validation failed")>>)]
                /\ UNCHANGED <<store, nextId>>
           ELSE /\ nextId <= MaxId
                /\ LET task == NewTask(nextId, body.text.str,
                                       ImportantOrDefault(body), clock, 0)
                   IN  /\ store' = [k \in DOMAIN store \cup {nextId} |->
                                       IF k = nextId THEN task ELSE store[k]]
                       /\ net' = [net EXCEPT ![i] = Answer(@, 201, <<task>>)]
                /\ nextId' = nextId + 1
    /\ UNCHANGED <<clock, resp, tasks, newTask, filter, searchTerm, loading, error,
                   stats>>
    /\ UNCHANGED <<clicks, failed, refreshAlone>>

ServeUpdate(i) ==
    /\ i \in DOMAIN net /\ net[i].kind = "update" /\ net[i].phase = "sent"
    /\ LET id == net[i].req.id
           u == UpdateData(net[i].req.body, clock)
       IN  IF UpdateRejected(id, u)
           THEN /\ net' = [net EXCEPT ![i] = Answer(@, 400,
                                <<ErrorBody("Validation failed")>>)]
                /\ UNCHANGED store
           ELSE IF id \notin DOMAIN store
           THEN /\ net' = [net EXCEPT ![i] = Answer(@, 404,
                                <<ErrorBody("Task not found")>>)]
                /\ UNCHANGED store
           ELSE /\ store' = [store EXCEPT ![id] = ApplyUpdate(@, u)]
                /\ net' = [net EXCEPT ![i] = Answer(@, 200, <<store'[id]>>)]
    /\ UNCHANGED <<nextId, clock, resp, tasks, newTask, filter, searchTerm, loading,
                   error, stats>>
    /\ UNCHANGED <<clicks, failed, refreshAlone>>

ServeDelete(i) ==
    /\ i \in DOMAIN net /\ net[i].kind = "delete" /\ net[i].phase = "sent"
    /\ LET id == net[i].req.id
       IN  IF id \notin DOMAIN store
           THEN /\ net' = [net EXCEPT ![i] = Answer(@, 404,
                                <<ErrorBody("Task not found")>>)]
                /\ UNCHANGED store
           ELSE /\ store' = [k \in DOMAIN store \ {id} |-> store[k]]
                /\ net' = [net EXCEPT ![i] = Answer(@, 200,
                                <<[message |-> "Task deleted successfully"]>>)]
    /\ UNCHANGED <<nextId, clock, resp, tasks, newTask, filter, searchTerm, loading,
                   error, stats>>
    /\ UNCHANGED <<clicks, failed, refreshAlone>>

\* fetch rejects: the request or its response is lost
NetworkError(i) ==
    /\ i \in DOMAIN net /\ net[i].phase # "failed"
    /\ net' = [net EXCEPT ![i] = [@ EXCEPT !.phase = "failed", !.status = 0,
                                             !.body = <<>>]]
    /\ UNCHANGED <<store, nextId, clock, resp, tasks, newTask, filter, searchTerm,
                   loading, error, stats>>
    /\ UNCHANGED <<clicks, failed, refreshAlone>>

(* What the client does when a fetch settles *)

\* fetchTasksSettled that drops the response of a query the filter or the
\* search term has moved on from
fetchTasksSettledLatestOnly(i) ==
    /\ i \in DOMAIN net /\ net[i].kind = "tasks" /\ Settled(net[i])
    /\ IF Ok(net[i])
       THEN /\ tasks' = IF net[i].req = TasksRequest(filter, searchTerm).req
                        THEN net[i].body ELSE tasks
            /\ error' = Null
       ELSE error' = LoadError /\ UNCHANGED tasks
    /\ loading' = FALSE
    /\ net' = RemoveAt(net, i)
    /\ UNCHANGED <<store, nextId, clock, resp, newTask, filter, searchTerm, stats>>
    /\ failed' = (failed \/ ~Ok(net[i]))
    /\ refreshAlone' = (refreshAlone /\ Ok(net[i]))
    /\ UNCHANGED clicks

\* fetchTasksSettled with setTasks([]) in its catch
fetchTasksSettledClearing(i) ==
    /\ i \in DOMAIN net /\ net[i].kind = "tasks" /\ Settled(net[i])
    /\ IF Ok(net[i])
       THEN tasks' = net[i].body /\ error' = Null
       ELSE error' = LoadError /\ tasks' = <<>>
    /\ loading' = FALSE
    /\ net' = RemoveAt(net, i)
    /\ UNCHANGED <<store, nextId, clock, resp, newTask, filter, searchTerm, stats>>
    /\ failed' = (failed \/ ~Ok(net[i]))
    /\ refreshAlone' = (refreshAlone /\ Ok(net[i]))
    /\ UNCHANGED clicks

\* fetchTasks after its await: try / catch / finally
fetchTasksSettled(i) ==
    /\ i \in DOMAIN net /\ net[i].kind = "tasks" /\ Settled(net[i])
    /\ IF Ok(net[i])
       THEN tasks' = net[i].body /\ error' = Null
       ELSE error' = LoadError /\ UNCHANGED tasks
    /\ loading' = FALSE
    /\ net' = RemoveAt(net, i)
    /\ UNCHANGED <<store, nextId, clock, resp, newTask, filter, searchTerm, stats>>
    /\ failed' = (failed \/ ~Ok(net[i]))
    /\ refreshAlone' = (refreshAlone /\ Ok(net[i]))
    /\ UNCHANGED clicks

\* fetchStats after its await; its catch only logs
fetchStatsSettled(i) ==
    /\ i \in DOMAIN net /\ net[i].kind = "stats" /\ Settled(net[i])
    /\ IF Ok(net[i])
       THEN stats' = net[i].body[1]
       ELSE UNCHANGED stats
    /\ net' = RemoveAt(net, i)
    /\ UNCHANGED <<store, nextId, clock, resp, tasks, newTask, filter, searchTerm,
                   loading, error>>
    /\ failed' = (failed \/ ~Ok(net[i]))
    /\ refreshAlone' = (refreshAlone /\ Ok(net[i]))
    /\ UNCHANGED clicks

\* createTask after its await, then the rest of addTask: setNewTask('')
createTaskSettled(i) ==
    /\ i \in DOMAIN net /\ net[i].kind = "create" /\ Settled(net[i])
    /\ IF Ok(net[i])
       THEN /\ tasks' = Prepend(net[i].body[1], tasks)
            /\ net' = Append(RemoveAt(net, i), StatsRequest)
            /\ UNCHANGED error
       ELSE /\ error' = CreateError
            /\ net' = RemoveAt(net, i)
            /\ UNCHANGED tasks
    /\ newTask' = <<>>
    /\ UNCHANGED <<store, nextId, clock, resp, filter, searchTerm, loading, stats>>
    /\ failed' = (failed \/ ~Ok(net[i]))
    /\ refreshAlone' = (refreshAlone /\ Ok(net[i]))
    /\ UNCHANGED clicks

\* updateTask after its await
updateTaskSettled(i) ==
    /\ i \in DOMAIN net /\ net[i].kind = "update" /\ Settled(net[i])
    /\ IF Ok(net[i])
       THEN /\ tasks' = ReplaceById(tasks, net[i].req.id, net[i].body[1])
            /\ net' = Append(RemoveAt(net, i), StatsRequest)
            /\ UNCHANGED error
       ELSE /\ error' = UpdateError
            /\ net' = RemoveAt(net, i)
            /\ UNCHANGED tasks
    /\ UNCHANGED <<store, nextId, clock, resp, newTask, filter, searchTerm, loading,
                   stats>>
    /\ failed' = (failed \/ ~Ok(net[i]))
    /\ refreshAlone' = (refreshAlone /\ Ok(net[i]))
    /\ UNCHANGED clicks

\* deleteTask after its await
deleteTaskSettled(i) ==
    /\ i \in DOMAIN net /\ net[i].kind = "delete" /\ Settled(net[i])
    /\ IF Ok(net[i])
       THEN /\ tasks' = RemoveById(tasks, net[i].req.id)
            /\ net' = Append(RemoveAt(net, i), StatsRequest)
            /\ UNCHANGED error
       ELSE /\ error' = DeleteError
            /\ net' = RemoveAt(net, i)
            /\ UNCHANGED tasks
    /\ UNCHANGED <<store, nextId, clock, resp, newTask, filter, searchTerm, loading,
                   stats>>
    /\ failed' = (failed \/ ~Ok(net[i]))
    /\ refreshAlone' = (refreshAlone /\ Ok(net[i]))
    /\ UNCHANGED clicks

----------------------------------------------------------------------------
\* The collection is empty and the component has mounted: its two effects
\* have started fetchTasks() and fetchStats().
Init ==
    /\ store = <<>>
    /\ nextId = 1
    /\ clock = 0
    /\ resp = NoResponse
    /\ tasks = <<>>
    /\ newTask = <<>>
    /\ filter = "all"
    /\ searchTerm = <<>>
    /\ loading = TRUE
    /\ error = Null
    /\ stats = ZeroStats
    /\ net = <<TasksRequest("all", <<>>), StatsRequest>>
    /\ clicks = 0
    /\ failed = FALSE
    /\ refreshAlone = FALSE

Next ==
    \/ \E f \in Filters, s \in Searches : GetTasks(f, s)
    \/ \E b \in PostBodies, d \in 0..1 : PostTask(b, d)
    \/ \E id \in ReqIds, b \in PutBodies : PutTask(id, b)
    \/ \E id \in ReqIds : DeleteTask(id)
    \/ GetStats
    \/ ReadResponse
    \/ Tick

Spec == Init /\ [][Next]_vars

----------------------------------------------------------------------------
(* The same service with a store that may be unreachable or fail a call.   *)
(* Each handler below is the handler above at a request whose store call   *)
(* rejects: the rejection lands in the handler's catch.                    *)

StoreUnavailable == "Store unavailable"

GetTasksStoreDown(filterArg, search) ==
    /\ resp = NoResponse
    /\ resp' = Response("GET /tasks", [filter |-> filterArg, search |-> search], 500,
                        ErrorBody(StoreUnavailable))
    /\ UNCHANGED <<store, nextId, clock, client>>

\* task.save() validates before it writes
PostTaskStoreDown(body) ==
    /\ resp = NoResponse
    /\ ~TextMissing(body.text)
    /\ ~SaveRejected(body.text.str, ImportantOrDefault(body))
    /\ resp' = Response("POST /tasks", body, 400, ErrorBody(StoreUnavailable))
    /\ UNCHANGED <<store, nextId, clock, client>>

\* findByIdAndUpdate casts and validates before it calls the store
PutTaskStoreDown(id, body) ==
    /\ resp = NoResponse
    /\ body.text.kind # Null
    /\ ~UpdateRejected(id, UpdateData(body, clock))
    /\ resp' = Response("PUT /tasks/:id", [id |-> id, body |-> body], 400,
                        ErrorBody(StoreUnavailable))
    /\ UNCHANGED <<store, nextId, clock, client>>

DeleteTaskStoreDown(id) ==
    /\ resp = NoResponse
    /\ id # BadId
    /\ resp' = Response("DELETE /tasks/:id", [id |-> id], 500,
                        ErrorBody(StoreUnavailable))
    /\ UNCHANGED <<store, nextId, clock, client>>

GetStatsStoreDown ==
    /\ resp = NoResponse
    /\ resp' = Response("GET /tasks/stats", <<>>, 500, ErrorBody(StoreUnavailable))
    /\ UNCHANGED <<store, nextId, clock, client>>

FaultyNext ==
    \/ Next
    \/ \E f \in Filters, s \in Searches : GetTasksStoreDown(f, s)
    \/ \E b \in PostBodies : PostTaskStoreDown(b)
    \/ \E id \in ReqIds, b \in PutBodies : PutTaskStoreDown(id, b)
    \/ \E id \in ReqIds : DeleteTaskStoreDown(id)
    \/ GetStatsStoreDown

FaultySpec == Init /\ [][FaultyNext]_vars

----------------------------------------------------------------------------
(* The client and the service it talks to, with no other caller. *)

ClientNext ==
    \/ \E f \in ClientFilters : setFilter(f)
    \/ \E s \in ClientSearches : setSearchTerm(s)
    \/ \E t \in Drafts : setNewTask(t)
    \/ addTask
    \/ \E id \in Ids : toggleTask(id)
    \/ \E id \in Ids : toggleImportant(id)
    \/ \E id \in Ids : deleteTask(id)
    \/ refreshTasks
    \/ dismissError
    \/ \E i \in 1..MaxInFlight :
           \/ ServeTasks(i)
           \/ ServeStats(i)
           \/ ServeCreate(i)
           \/ ServeUpdate(i)
           \/ ServeDelete(i)
           \/ NetworkError(i)
           \/ fetchTasksSettled(i)
           \/ fetchStatsSettled(i)
           \/ createTaskSettled(i)
           \/ updateTaskSettled(i)
           \/ deleteTaskSettled(i)

ClientSpec == Init /\ [][ClientNext]_vars

----------------------------------------------------------------------------
(* Properties *)

\* The step in which the handler of op answers a request
Handled(op) == resp = NoResponse /\ resp'.op = op

\* The set of elements of a sequence
Range(q) == {q[i] : i \in 1..Len(q)}

\* Documents of the collection whose id is in S
DocsOf(S) == {store[i] : i \in S}

\* The filter predicate of the specification
FilterSelects(filterArg, doc) ==
    CASE filterArg = "completed" -> doc.completed = "true"
      [] filterArg = "pending" -> doc.completed = "false"
      [] filterArg = "important" -> doc.important = "true"
      [] OTHER -> TRUE

\* The ids the service returns for a search when no filter is given
SearchSelects(search) == FindIds(store, BuildQuery(Undefined, search))

\* C1: a successful GET /api/tasks returns, without repetition, exactly the
\* stored records that satisfy the filter predicate (completed: completed is
\* true; pending: completed is false; important: important is true; all or
\* absent: no constraint) and that the search selects on its own.
GetReturnsFilterAndSearch ==
    resp.op = "GET /tasks" /\ resp.status = 200 =>
        /\ Len(resp.body) = Cardinality(Range(resp.body))
        /\ Range(resp.body) =
               DocsOf({i \in DOMAIN store :
                          /\ FilterSelects(resp.req.filter, store[i])
                          /\ i \in SearchSelects(resp.req.search)})

\* C1 witness: filter=pending with a search returned one of two stored records.
GetPendingSearchFilteredOne ==
    /\ resp.op = "GET /tasks" /\ resp.status = 200
    /\ resp.req.filter = "pending" /\ resp.req.search = <<"a">>
    /\ Len(resp.body) = 1
    /\ Cardinality(DOMAIN store) = 2
    /\ \E i \in DOMAIN store : store[i].completed # "false"

\* s occurs in t as a literal substring, letter case ignored
ContainsIgnoreCase(t, s) ==
    \E k \in 0..(Len(t) - Len(s)) :
        \A i \in 1..Len(s) : Lower(s[i]) = Lower(t[k + i])

SameIgnoringCase(s1, s2) ==
    Len(s1) = Len(s2) /\ \A i \in 1..Len(s1) : Lower(s1[i]) = Lower(s2[i])

\* C2: for every non-empty search string, metacharacters included, GET
\* /api/tasks succeeds and returns exactly the records (of the filter) whose
\* text contains the string as a literal, case-insensitive substring; and two
\* searches that differ only in letter case select the same records.
SearchIsLiteralSubstring ==
    /\ resp.op = "GET /tasks" /\ resp.req.search # <<>> =>
           /\ resp.status = 200
           /\ Range(resp.body) =
                  DocsOf({i \in DOMAIN store :
                             /\ FilterSelects(resp.req.filter, store[i])
                             /\ ContainsIgnoreCase(store[i].text, resp.req.search)})
    /\ \A s1, s2 \in Searches :
           SameIgnoringCase(s1, s2) => SearchSelects(s1) = SearchSelects(s2)

\* C3: for every search the service accepts, the records of filter=completed
\* and of filter=pending are disjoint and together are those of filter=all.
CompletedPendingPartitionAll ==
    \A s \in Searches :
        LET done == FindIds(store, BuildQuery("completed", s))
            todo == FindIds(store, BuildQuery("pending", s))
            all == FindIds(store, BuildQuery("all", s))
        IN  done \cap todo = {} /\ done \cup todo = all

\* A text that is absent, not a string, empty or all whitespace
Blank(text) ==
    text.kind # "string" \/ \A i \in 1..Len(text.str) : text.str[i] = " "

\* C4: a create request whose text is absent, empty, or empty after trimming
\* is answered with 400 and leaves the collection as it was.
BlankCreateRejected ==
    [][Handled("POST /tasks") /\ Blank(resp'.req.text) =>
           resp'.status = 400 /\ store' = store /\ nextId' = nextId]_vars

\* C4 witness: a whitespace-only text was answered 400 with records stored.
BlankCreateAnswered400 ==
    /\ resp.op = "POST /tasks" /\ resp.status = 400
    /\ resp.req.text = Str(<<" ">>)
    /\ DOMAIN store # {}

\* out is s without its leading and trailing spaces
IsTrimOf(out, s) ==
    /\ out = <<>> \/ (out[1] # " " /\ out[Len(out)] # " ")
    /\ \E a \in 0..Len(s) :
           /\ a + Len(out) <= Len(s)
           /\ \A i \in 1..Len(s) :
                  IF i > a /\ i <= a + Len(out) THEN s[i] = out[i - a]
                  ELSE s[i] = " "

\* The effect of a successful create, given the important value expected for
\* the one supplied: one record with a fresh id is added, it is the response,
\* its text is the trimmed input, completed is false, both timestamps are
\* taken while the request is handled, and no other record changes.
CreateEffect(expected(_)) ==
    Handled("POST /tasks") /\ resp'.status = 201 =>
        LET task == resp'.body
        IN  /\ task._id \notin IssuedIds
            /\ DOMAIN store' = DOMAIN store \cup {task._id}
            /\ store'[task._id] = task
            /\ \A i \in DOMAIN store : store'[i] = store[i]
            /\ IsTrimOf(task.text, resp'.req.text.str)
            /\ task.completed = "false"
            /\ task.important = expected(resp'.req.important)
            /\ clock <= task.createdAt /\ task.createdAt <= clock'
            /\ clock <= task.updatedAt /\ task.updatedAt <= clock'

SuppliedOrFalse(v) == IF v = Undefined THEN "false" ELSE v

CastOrFalse(v) ==
    CASE v = Undefined -> "false"
      [] v = "yes" -> "true"
      [] OTHER -> v

\* C5 as stated: a successful create stores important equal to the supplied
\* value, or false when absent (with the rest of the effect of a create).
CreateStoresSuppliedImportant == [][CreateEffect(SuppliedOrFalse)]_vars

\* C5: a successful create adds exactly one record with a fresh id, the
\* trimmed text, completed = false whatever the body holds, and both
\* timestamps of the creation; important is the supplied value as the schema
\* casts it to Boolean (true, false and null as supplied, a true-like string
\* as true), or false when absent; the 201 response is the stored record and
\* all other records are unchanged.
CreateStoresCastImportant == [][CreateEffect(CastOrFalse)]_vars

\* C5 witness: a create with padded text, important "yes" was answered 201
\* next to another record.
CreatedWithTruthyImportant ==
    /\ resp.op = "POST /tasks" /\ resp.status = 201
    /\ resp.req.important = "yes"
    /\ resp.req.text = Str(<<" ", "A", "b", " ">>)
    /\ Cardinality(DOMAIN store) = 2

\* C6: an update whose id identifies no stored record (never created,
\* deleted, or malformed) is answered with 404 and changes nothing.
UnknownIdUpdateIs404 ==
    [][Handled("PUT /tasks/:id") /\ resp'.req.id \notin DOMAIN store =>
           resp'.status = 404 /\ store' = store]_vars

\* C7: a successful update leaves the number of records, every other record,
\* and on the target record the id, createdAt and every field absent from
\* the payload as they were.
UpdateChangesOnlyPayloadFields ==
    [][Handled("PUT /tasks/:id") /\ resp'.status = 200 =>
           LET id == resp'.req.id
               body == resp'.req.body
           IN  /\ id \in DOMAIN store
               /\ DOMAIN store' = DOMAIN store
               /\ \A i \in DOMAIN store \ {id} : store'[i] = store[i]
               /\ store'[id]._id = store[id]._id
               /\ store'[id].createdAt = store[id].createdAt
               /\ body.text.kind = Undefined => store'[id].text = store[id].text
               /\ body.completed = Undefined =>
                      store'[id].completed = store[id].completed
               /\ body.important = Undefined =>
                      store'[id].important = store[id].important]_vars

\* C7 witness: an update of completed alone succeeded on an important record
\* next to another record.
UpdatedCompletedOnly ==
    /\ resp.op = "PUT /tasks/:id" /\ resp.status = 200
    /\ resp.req.body.text = NoText
    /\ resp.req.body.completed = "true"
    /\ resp.req.body.important = Undefined
    /\ resp.body.important = "true"
    /\ Cardinality(DOMAIN store) = 2

\* C8: every successful update, an empty one or one with the stored values
\* included, sets the record's updatedAt to the time of the update, and the
\* response is the record as stored after it.
UpdateStampsUpdatedAt ==
    [][Handled("PUT /tasks/:id") /\ resp'.status = 200 =>
           /\ store'[resp'.req.id].updatedAt = clock
           /\ resp'.body = store'[resp'.req.id]]_vars

\* C8 witness: an update with an empty payload succeeded after the time of
\* the record's creation.
EmptyUpdateRestamped ==
    /\ resp.op = "PUT /tasks/:id" /\ resp.status = 200
    /\ resp.req.body = [text |-> NoText, completed |-> Undefined, important |-> Undefined]
    /\ resp.body.updatedAt > resp.body.createdAt

\* C9: a delete of an existing id removes exactly that record and is
\* answered 200; a delete of any other id is answered 404 and changes
\* nothing; and an id once deleted is never stored again.
DeleteRemovesOr404 ==
    [][/\ Handled("DELETE /tasks/:id") =>
              IF resp'.req.id \in DOMAIN store
              THEN /\ resp'.status = 200
                   /\ store' = [i \in DOMAIN store \ {resp'.req.id} |-> store[i]]
              ELSE resp'.status = 404 /\ store' = store
       /\ \A i \in IssuedIds \ DOMAIN store : i \notin DOMAIN store']_vars

\* Number of stored records that satisfy P
Recount(P(_)) == Cardinality({i \in DOMAIN store : P(store[i])})

IsCompleted(doc) == doc.completed = "true"

IsPending(doc) == doc.completed = "false"

IsImportant(doc) == doc.important = "true"

\* C10: GET /api/tasks/stats returns the four counts of a direct recount of
\* the collection, with completed + pending = total, and four zeros for the
\* empty collection.
StatsMatchRecount ==
    resp.op = "GET /tasks/stats" =>
        /\ resp.status = 200
        /\ resp.body.total = Cardinality(DOMAIN store)
        /\ resp.body.completed = Recount(IsCompleted)
        /\ resp.body.pending = Recount(IsPending)
        /\ resp.body.important = Recount(IsImportant)
        /\ resp.body.completed + resp.body.pending = resp.body.total
        /\ DOMAIN store = {} =>
               resp.body = [total |-> 0, completed |-> 0, pending |-> 0, important |-> 0]

\* A text with a character that is not a space
HasVisibleText(t) == \E i \in 1..Len(t) : t[i] # " "

\* C11: the text of every stored record is non-empty and not all whitespace,
\* whatever create and update requests came before.
StoredTextNeverBlank ==
    \A i \in DOMAIN store : HasVisibleText(store[i].text)

\* C11 witness: an update of a stored record to a whitespace-only text was
\* answered 400.
BlankTextUpdateRefused ==
    /\ resp.op = "PUT /tasks/:id" /\ resp.status = 400
    /\ resp.req.body.text = Str(<<" ">>)
    /\ resp.req.id \in DOMAIN store

\* C12: the records of a GET /api/tasks response are in descending order of
\* createdAt, and records with equal createdAt are in the order of their
\* insertion.
GetOrderedWithInsertionTies ==
    resp.op = "GET /tasks" /\ resp.status = 200 =>
        \A i, j \in 1..Len(resp.body) :
            i < j =>
                \/ resp.body[i].createdAt > resp.body[j].createdAt
                \/ /\ resp.body[i].createdAt = resp.body[j].createdAt
                   /\ resp.body[i]._id < resp.body[j]._id

\* What does hold of the order: descending createdAt, ties in any order.
GetOrderedByCreatedAtDesc ==
    resp.op = "GET /tasks" /\ resp.status = 200 =>
        \A i, j \in 1..Len(resp.body) :
            i < j => resp.body[i].createdAt >= resp.body[j].createdAt

\* A response lists a later record before an earlier one.
GetListedNewerFirst ==
    /\ resp.op = "GET /tasks" /\ resp.status = 200
    /\ Len(resp.body) = 2
    /\ resp.body[1].createdAt > resp.body[2].createdAt

\* C13: every stored record has updatedAt >= createdAt (the clock of the
\* model never goes backwards).
UpdatedAtNotBeforeCreatedAt ==
    \A i \in DOMAIN store : store[i].updatedAt >= store[i].createdAt

\* C13 witness: a record created after time 0 was updated in the instant of
\* its creation.
UpdatedInCreationInstant ==
    /\ resp.op = "PUT /tasks/:id" /\ resp.status = 200
    /\ resp.body.createdAt = 1
    /\ resp.body.updatedAt = 1

\* C14: a failure of the store is answered with 500, 400 is answered only to
\* a validation error and 404 only for an id that is not stored.
StoreFailureIs500 ==
    resp.status \in {400, 404, 500} =>
        /\ resp.body.error = StoreUnavailable => resp.status = 500
        /\ resp.status = 400 => resp.body.error # StoreUnavailable
        /\ resp.status = 404 => resp.req.id \notin DOMAIN store

\* The fields of a PUT body that are present
Present(body) ==
    {f \in {"completed", "important"} : body[f] # Undefined}
        \cup (IF body.text.kind # Undefined THEN {"text"} ELSE {})

\* A PUT body the handler accepts for a well-formed id
Accepted(body) ==
    body.text.kind # Null /\ ~UpdateRejected(1, UpdateData(body, clock))

\* The three fields a client can set
Settable(doc) == <<doc.text, doc.completed, doc.important>>

\* Booleans as stored
Stored(v) == IF v = "yes" THEN "true" ELSE v

\* doc holds every field that body sets
TookEffect(body, doc) ==
    /\ "text" \in Present(body) => IsTrimOf(doc.text, body.text.str)
    /\ "completed" \in Present(body) => doc.completed = Stored(body.completed)
    /\ "important" \in Present(body) => doc.important = Stored(body.important)

\* C15: when an update has been applied, any update of the same record that
\* sets other fields leads to the same text, completed and important whether
\* it is handled after it or was handled before it, and both have taken effect.
DisjointUpdatesCommute ==
    [][Handled("PUT /tasks/:id") /\ resp'.status = 200 =>
           LET id == resp'.req.id
               first == resp'.req.body
           IN  \A other \in PutBodies :
                   Present(first) \cap Present(other) = {} /\ Accepted(other) =>
                       LET after == ApplyUpdate(store'[id], UpdateData(other, clock))
                           before == ApplyUpdate(ApplyUpdate(store[id],
                                                             UpdateData(other, clock)),
                                                 UpdateData(first, clock))
                       IN  /\ Settable(after) = Settable(before)
                           /\ TookEffect(first, after)
                           /\ TookEffect(other, after)]_vars

\* C15 witness: an update of important alone was applied to a record that an
\* earlier update had completed.
ImportantSetOnCompleted ==
    /\ resp.op = "PUT /tasks/:id" /\ resp.status = 200
    /\ resp.req.body.text = NoText
    /\ resp.req.body.completed = Undefined
    /\ resp.req.body.important = "true"
    /\ resp.body.completed = "true"
    /\ resp.body.important = "true"

----------------------------------------------------------------------------
(* Properties of the client *)

\* The step is the settling of message i of net: the message leaves net, and
\* nothing or one stats request enters it.
Settles(i) ==
    /\ i \in DOMAIN net
    /\ net[i].phase \in {"answered", "failed"}
    /\ net' \in {RemoveAt(net, i), Append(RemoveAt(net, i), StatsRequest)}

\* The fetch of message m resolved with a 2xx response
Succeeded(m) == m.phase = "answered" /\ m.status \in {200, 201}

\* The step adds one stats request to the requests left in flight
DispatchesStats(i) == net' = Append(RemoveAt(net, i), StatsRequest)

\* The entries of list whose id is not id, in their order
RECURSIVE Without(_, _)
Without(list, id) ==
    IF list = <<>> THEN <<>>
    ELSE IF Head(list)._id = id THEN Without(Tail(list), id)
    ELSE <<Head(list)>> \o Without(Tail(list), id)

\* C16: every change of the filter or of the search term dispatches one task
\* query carrying the new filter and the new search term, and when a task
\* query succeeds the mirror becomes the list of its response.
FilterChangeQueriesAndMirrors ==
    [][/\ filter' # filter \/ searchTerm' # searchTerm =>
              /\ Len(net') = Len(net) + 1
              /\ SubSeq(net', 1, Len(net)) = net
              /\ net'[Len(net')].kind = "tasks"
              /\ net'[Len(net')].phase = "sent"
              /\ net'[Len(net')].req.filter =
                     (IF filter' = "all" THEN Undefined ELSE filter')
              /\ net'[Len(net')].req.search = searchTerm'
       /\ \A i \in 1..MaxInFlight :
              Settles(i) /\ net[i].kind = "tasks" /\ Succeeded(net[i]) =>
                  tasks' = net[i].body]_vars

\* C16 witness: the user completed a task, whose response was lost, and
\* changed the filter to "completed": the mirror holds the completed task,
\* which only the response of the task query brought.
CompletedFilterMirrored ==
    /\ filter = "completed"
    /\ clicks = 3 /\ nextId = 2
    /\ error = UpdateError
    /\ net = <<>> /\ ~loading
    /\ Len(tasks) = 1 /\ tasks[1].completed = "true"

\* C17: when a create succeeds the client puts the record of the response at
\* the front of the mirror, the entries it had follow in their order, and one
\* stats request is dispatched.
CreateSuccessPrepends ==
    [][\A i \in 1..MaxInFlight :
           Settles(i) /\ net[i].kind = "create" /\ Succeeded(net[i]) =>
               /\ Len(tasks') = Len(tasks) + 1
               /\ tasks'[1] = net[i].body[1]
               /\ \A k \in DOMAIN tasks : tasks'[k + 1] = tasks[k]
               /\ DispatchesStats(i)]_vars

\* C17 witness: the second created task stands before two entries the mirror
\* had, and the stats request is in flight.
CreatedBeforeTwoEntries ==
    /\ Len(tasks) = 3
    /\ tasks[1]._id = 2 /\ tasks[2]._id = 1 /\ tasks[3]._id = 1
    /\ net # <<>> /\ net[Len(net)] = StatsRequest

\* C18: when an update succeeds the client replaces the mirror entries with
\* the id of the request by the record of the response, in place: length,
\* order and the other entries stay, a mirror without the id stays as it is,
\* and one stats request is dispatched.
UpdateSuccessReplacesInPlace ==
    [][\A i \in 1..MaxInFlight :
           Settles(i) /\ net[i].kind = "update" /\ Succeeded(net[i]) =>
               /\ Len(tasks') = Len(tasks)
               /\ \A k \in DOMAIN tasks :
                      tasks'[k] = IF tasks[k]._id = net[i].req.id
                                  THEN net[i].body[1] ELSE tasks[k]
               /\ DispatchesStats(i)]_vars

\* C18 witness: of two mirrored tasks the second, and only it, was completed
\* by the one update the user started.
SecondEntryCompletedInPlace ==
    /\ clicks = 3 /\ nextId = 3
    /\ Len(tasks) = 2
    /\ tasks[1]._id = 2 /\ tasks[1].completed = "false"
    /\ tasks[2]._id = 1 /\ tasks[2].completed = "true"
    /\ net = <<StatsRequest>>

\* C19: when a delete succeeds the client removes every mirror entry with the
\* deleted id, the other entries keep their order, and one stats request is
\* dispatched.
DeleteSuccessRemovesEvery ==
    [][\A i \in 1..MaxInFlight :
           Settles(i) /\ net[i].kind = "delete" /\ Succeeded(net[i]) =>
               /\ tasks' = Without(tasks, net[i].req.id)
               /\ DispatchesStats(i)]_vars

\* C19 witness: of two created tasks the first was deleted and has left the
\* mirror, the second stays.
FirstOfTwoDeleted ==
    /\ clicks = 3 /\ nextId = 3
    /\ DOMAIN store = {2}
    /\ Len(tasks) = 1 /\ tasks[1]._id = 2
    /\ error = Null
    /\ net = <<StatsRequest>>

\* C20: a request that fails (tasks, create, update, delete or stats; lost on
\* the network or answered with a status that is no success) leaves the
\* mirror and the stats as they were.
FailureLeavesMirrorAndStats ==
    [][\A i \in 1..MaxInFlight :
           Settles(i) /\ ~Succeeded(net[i]) =>
               tasks' = tasks /\ stats' = stats]_vars

\* C20 witness: the response of an update was lost: the store holds the task
\* completed, the mirror holds it pending as before and the error is set.
UpdateFailedMirrorKept ==
    /\ error = UpdateError
    /\ Len(tasks) = 1 /\ tasks[1]._id = 1 /\ tasks[1].completed = "false"
    /\ 1 \in DOMAIN store /\ store[1].completed = "true"
    /\ net = <<>>

\* C21: every failed request of the client, the stats request included, sets
\* the error shown to the user to a message.
FailureSetsError ==
    [][\A i \in 1..MaxInFlight :
           Settles(i) /\ ~Succeeded(net[i]) => error' # Null]_vars

\* C22: a failed create, update or delete changes nothing of the client but
\* the error: mirror, stats, filter, search term and compose text stay.
FailedMutationOnlySetsError ==
    [][\A i \in 1..MaxInFlight :
           /\ Settles(i)
           /\ net[i].kind \in {"create", "update", "delete"}
           /\ ~Succeeded(net[i])
           => UNCHANGED <<tasks, stats, filter, searchTerm, newTask>>]_vars

\* C23: while a task query is in flight, loading is true.
LoadingWhileQueryInFlight ==
    (\E i \in DOMAIN net : net[i].kind = "tasks") => loading

\* Message m is a task query for another filter or search term than the
\* current ones: the user has changed them since it was dispatched.
Superseded(m) ==
    \/ m.req.filter # (IF filter = "all" THEN Undefined ELSE filter)
    \/ m.req.search # searchTerm

\* C24: a response is applied when it arrives, whatever was dispatched since:
\* the list of a task query the user has moved on from replaces the mirror,
\* and the record of an update that the store no longer holds replaces the
\* mirror entry.
ResponsesAppliedInArrivalOrder ==
    [][\A i \in 1..MaxInFlight :
           /\ Settles(i) /\ net[i].kind = "tasks" /\ Succeeded(net[i])
              /\ Superseded(net[i])
              => tasks' = net[i].body /\ UNCHANGED <<filter, searchTerm>>
           /\ Settles(i) /\ net[i].kind = "update" /\ Succeeded(net[i])
              /\ net[i].req.id \in DOMAIN store
              /\ net[i].body[1] # store[net[i].req.id]
              => \A k \in DOMAIN tasks :
                     tasks[k]._id = net[i].req.id => tasks'[k] = net[i].body[1]]_vars

\* C24 witness: the user completed a task and then marked it important, no
\* request failed and both updates have settled; the store holds both changes
\* and the mirror holds the record of the first response, not important.
MirrorHoldsEarlierUpdate ==
    /\ ~failed /\ clicks = 3 /\ nextId = 2
    /\ \A i \in DOMAIN net : net[i].kind = "stats"
    /\ 1 \in DOMAIN store
    /\ store[1].completed = "true" /\ store[1].important = "true"
    /\ Len(tasks) = 1
    /\ tasks[1].completed = "true" /\ tasks[1].important = "false"

\* C25: with no failed request, once nothing is in flight the stats shown are
\* the four counts over the collection.
IdleStatsMatchCollection ==
    ~failed /\ net = <<>> =>
        /\ stats.total = Cardinality(DOMAIN store)
        /\ stats.completed = Recount(IsCompleted)
        /\ stats.pending = Recount(IsPending)
        /\ stats.important = Recount(IsImportant)

\* C27: the mirror holds at most one entry per id.
MirrorIdsUnique ==
    \A k, h \in DOMAIN tasks : k # h => tasks[k]._id # tasks[h]._id

\* C28: when nothing is in flight, every record of the mirror satisfies the
\* active filter and the active search term.
IdleMirrorSatisfiesFilterAndSearch ==
    net = <<>> =>
        \A k \in DOMAIN tasks :
            /\ FilterSelects(filter, tasks[k])
            /\ searchTerm # <<>> => ContainsIgnoreCase(tasks[k].text, searchTerm)

\* A refresh is the one step that puts two requests in flight: they are a
\* task query with the current filter and search term, and a stats request.
RefreshDispatchesBoth ==
    Len(net') = Len(net) + 2 =>
        /\ SubSeq(net', 1, Len(net)) = net
        /\ net'[Len(net) + 1].kind = "tasks"
        /\ net'[Len(net) + 1].phase = "sent"
        /\ net'[Len(net) + 1].req.filter = (IF filter = "all" THEN Undefined ELSE filter)
        /\ net'[Len(net) + 1].req.search = searchTerm
        /\ net'[Len(net) + 2] = StatsRequest
        /\ UNCHANGED <<tasks, stats, filter, searchTerm>>

\* After a refresh made with nothing else in flight, once its two requests
\* have succeeded the mirror is the service's result for the current filter
\* and search term and the stats are the service's counts.
RefreshedMatchesService ==
    refreshAlone /\ net = <<>> =>
        /\ Len(tasks) = Cardinality(Range(tasks))
        /\ Range(tasks) =
               DocsOf({i \in DOMAIN store :
                          /\ FilterSelects(filter, store[i])
                          /\ i \in SearchSelects(searchTerm)})
        /\ stats = StatsResult(Aggregate(store))

\* C26: a refresh dispatches one task query with the current filter and
\* search term and one stats request; when nothing else is in flight and both
\* succeed, the mirror then equals the service's query result for the current
\* filter and search term and the stats equal the service's counts.
RefreshReplacesMirrorAndStats ==
    []RefreshedMatchesService /\ [][RefreshDispatchesBoth]_vars

\* C26 witness: under the filter "important" the user added a task, which the
\* mirror showed, and refreshed: both requests have succeeded, the mirror is
\* empty as the service's result is, and the stats count the task.
RefreshedUnderImportant ==
    /\ refreshAlone /\ net = <<>> /\ clicks = 3
    /\ filter = "important"
    /\ tasks = <<>>
    /\ DOMAIN store = {1}
    /\ stats.total = 1

\* The first entry of the mirror with the id
Shown(id) ==
    tasks[CHOOSE k \in DOMAIN tasks :
              /\ tasks[k]._id = id
              /\ \A h \in 1..(k - 1) : tasks[h]._id # id]

Negated(v) == IF v = "true" THEN "false" ELSE "true"

\* C29: the update a toggle sends sets one flag, to the negation of the value
\* the mirror holds at the click, whatever the service holds; so two clicks
\* made before the first response arrives send the same value twice.
ToggleSendsMirrorNegation ==
    [][Len(net') = Len(net) + 1 /\ net'[Len(net')].kind = "update" =>
           LET sent == net'[Len(net')]
               b == sent.req.body
           IN  /\ sent.phase = "sent"
               /\ \E k \in DOMAIN tasks : tasks[k]._id = sent.req.id
               /\ b.text = NoText
               /\ \/ /\ b.completed = Negated(Shown(sent.req.id).completed)
                     /\ b.important = Undefined
                  \/ /\ b.important = Negated(Shown(sent.req.id).important)
                     /\ b.completed = Undefined]_vars

\* C29 witness: two clicks on the completed box of a pending task were made
\* before a response arrived: both updates sent completed = true, the service
\* has applied both and holds the task completed, not pending again.
DoubleToggleSentSameValue ==
    /\ Len(net) = 2
    /\ net[1].kind = "update" /\ net[2].kind = "update"
    /\ net[1].req = net[2].req
    /\ net[1].req.body.completed = "true"
    /\ net[1].phase = "answered" /\ net[1].status = 200
    /\ net[2].phase = "answered" /\ net[2].status = 200
    /\ store[1].completed = "true"
    /\ Len(tasks) = 1 /\ tasks[1].completed = "false"

====
